---- MODULE Spec2Model ----
(***************************************************************************)
(* EduCoin classroom ledger (src/app.py, class Blockchain).                *)
(*                                                                         *)
(* The engine state is the five attributes of a Blockchain object.  Each   *)
(* method is one action.  The SHA-256 digest of the JSON encoding of a     *)
(* block is modelled as an injective function of the hashed fields: the    *)
(* digest of a block is the tuple of its fields in sort_keys order.        *)
(***************************************************************************)
EXTENDS Integers, Sequences, FiniteSets, TLC

VARIABLES
    chain,                  \* self.chain
    pending_transactions,   \* self.pending_transactions
    balances,               \* self.balances
    reward_history,         \* self.reward_history
    transfer_history,       \* self.transfer_history
    ret,                    \* outcome of the last call on the engine
    returned,               \* indices returned by new_transaction since the last new_block
    tampered,               \* the amount of a sealed transaction altered from outside, if any
    dirty,                  \* a block was sealed on top of an altered last block
    handler                 \* per caller: where its form handler stands and the inputs it holds

engine == <<chain, pending_transactions, balances, reward_history, transfer_history>>
vars == <<chain, pending_transactions, balances, reward_history, transfer_history,
          ret, returned, tampered, dirty, handler>>

----------------------------------------------------------------------------
(* Bounds of the model *)

\* longest chain explored (the genesis block included)
MaxChain == 3
\* most transactions ever appended to the pending buffer in one run
MaxTx == 2

----------------------------------------------------------------------------
(* Inputs *)

Teacher == "Teacher"
Participants == {"Teacher", "Alice", "Bob"}
\* amounts a caller may pass: the engine accepts any integer
Amounts == {0 - 1, 0, 1, 2}
PositiveAmounts == {a \in Amounts : a > 0}
\* Python's None for an optional string argument
None == "None"
\* marks the "teacher" key being absent from a transaction dict
Absent == "<absent>"
\* the teacher argument as the form handlers pass it (a non-empty name)
Teachers == {"MsLee"}
\* the callers that may run a form handler against the same engine
Callers == {1, 2}
\* values time.time() may give
Times == {1}
\* proof=123 is what every caller of new_block passes
CallerProof == 123
GenesisProof == 100
\* previous_hash="1" of the genesis block, and None for "not given"
GenesisPreviousHash == <<"1">>
NoHash == <<>>

----------------------------------------------------------------------------
(* Helpers *)

\* Python truthiness of an optional string (None and "" are falsy)
Truthy(s) == s # None /\ s # ""
\* Python truthiness of the previous_hash argument
TruthyHash(h) == h # NoHash

\* dict.get(key, 0)
Get(d, k) == IF k \in DOMAIN d THEN d[k] ELSE 0

\* d[k] = v on a dict: adds the key or overwrites it
Put(d, k, v) == [x \in (DOMAIN d) \cup {k} |-> IF x = k THEN v ELSE d[x]]

EmptyDict == [x \in {} |-> 0]

\* the digest taken without popping the "hash" key first
HashKeepsStoredHash(block) ==
    <<"sha256", block.index, block.previous_hash, block.proof,
      block.timestamp, block.transactions,
      IF "hash" \in DOMAIN block THEN block.hash ELSE NoHash>>

\* the digest taken over the block without its timestamp
HashWithoutTimestamp(block) ==
    <<"sha256", block.index, block.previous_hash, block.proof, block.transactions>>

\* Blockchain.hash: the digest of the block without its "hash" key, keys sorted
Hash(block) ==
    <<"sha256", block.index, block.previous_hash, block.proof,
      block.timestamp, block.transactions>>

\* Blockchain.last_block
last_block(c) == c[Len(c)]

----------------------------------------------------------------------------
(* Blockchain.new_block: the block it builds from the chain and the buffer *)

\* the block numbered from 0: "index": len(self.chain)
BuildBlockZeroBased(c, pending, proof, previous_hash, now) ==
    LET block == [index |-> Len(c),
                  timestamp |-> now,
                  transactions |-> pending,
                  proof |-> proof,
                  previous_hash |-> IF TruthyHash(previous_hash)
                                    THEN previous_hash
                                    ELSE Hash(last_block(c))]
    IN  [index |-> block.index,
         timestamp |-> block.timestamp,
         transactions |-> block.transactions,
         proof |-> block.proof,
         previous_hash |-> block.previous_hash,
         hash |-> Hash(block)]

BuildBlock(c, pending, proof, previous_hash, now) ==
    LET block == [index |-> Len(c) + 1,
                  timestamp |-> now,
                  transactions |-> pending,
                  proof |-> proof,
                  previous_hash |-> IF TruthyHash(previous_hash)
                                    THEN previous_hash
                                    ELSE Hash(last_block(c))]
    IN  [index |-> block.index,
         timestamp |-> block.timestamp,
         transactions |-> block.transactions,
         proof |-> block.proof,
         previous_hash |-> block.previous_hash,
         hash |-> Hash(block)]

\* self.chain.insert(0, block)
PrependBlock(c, block) == <<block>> \o c

\* self.chain.append(block)
AppendBlock(c, block) == Append(c, block)

\* Blockchain.is_chain_valid
RECURSIVE ValidFrom(_, _)
ValidFrom(c, i) ==
    IF i > Len(c) THEN TRUE
    ELSE IF c[i].previous_hash # c[i - 1].hash THEN FALSE
    ELSE IF c[i].hash # Hash(c[i]) THEN FALSE
    ELSE ValidFrom(c, i + 1)

\* the scan without the recomputation of each block's digest
IsChainValidLinksOnly(c) ==
    \A i \in 2..Len(c) : c[i].previous_hash = c[i - 1].hash

\* the scan with the first block's digest recomputed as well
IsChainValidChecksGenesis(c) ==
    c[1].hash = Hash(c[1]) /\ ValidFrom(c, 2)

IsChainValid(c) == ValidFrom(c, 2)

\* no sealed transaction has been altered / the altered one was written back
NotTampered == [phase |-> "none", block |-> 0, tx |-> 0, amount |-> 0]
Restored == [phase |-> "restored", block |-> 0, tx |-> 0, amount |-> 0]

\* a caller that is not inside a form handler
IdleHandler ==
    [pc |-> "idle", form |-> "none", sender |-> "", recipient |-> "", amount |-> 0,
     teacher |-> ""]

\* Blockchain.__init__
Init ==
    \E now \in Times :
        /\ chain = AppendBlock(<<>>, BuildBlock(<<>>, <<>>, GenesisProof, GenesisPreviousHash, now))
        /\ pending_transactions = <<>>
        /\ balances = EmptyDict
        /\ reward_history = <<>>
        /\ transfer_history = <<>>
        /\ ret = [op |-> "__init__", status |-> "None", value |-> 0]
        /\ returned = {}
        /\ tampered = NotTampered
        /\ dirty = FALSE
        /\ handler = [c \in Callers |-> IdleHandler]

\* new_block without "self.pending_transactions = []"
new_blockKeepsPending(proof, now) ==
    LET block == BuildBlock(chain, pending_transactions, proof, NoHash, now)
    IN  /\ chain' = AppendBlock(chain, block)
        /\ pending_transactions' = pending_transactions
        /\ ret' = [op |-> "new_block", status |-> "block", value |-> block.index]
        /\ returned' = {}
        /\ dirty' = (dirty \/ tampered.block = Len(chain))
        /\ UNCHANGED <<balances, reward_history, transfer_history, tampered>>

\* new_block that first validates the chain and refuses a broken one
new_blockRefusesBrokenChain(proof, now) ==
    LET block == BuildBlock(chain, pending_transactions, proof, NoHash, now)
    IN  /\ IsChainValid(chain)
        /\ chain' = AppendBlock(chain, block)
        /\ pending_transactions' = <<>>
        /\ ret' = [op |-> "new_block", status |-> "block", value |-> block.index]
        /\ returned' = {}
        /\ dirty' = (dirty \/ tampered.block = Len(chain))
        /\ UNCHANGED <<balances, reward_history, transfer_history, tampered>>

\* Blockchain.new_block(proof) as its callers use it (previous_hash defaults to None)
new_block(proof, now) ==
    LET block == BuildBlock(chain, pending_transactions, proof, NoHash, now)
    IN  /\ chain' = AppendBlock(chain, block)
        /\ pending_transactions' = <<>>
        /\ ret' = [op |-> "new_block", status |-> "block", value |-> block.index]
        /\ returned' = {}
        /\ dirty' = (dirty \/ tampered.block = Len(chain))
        /\ UNCHANGED <<balances, reward_history, transfer_history, tampered>>

----------------------------------------------------------------------------
(* Blockchain.new_transaction *)

\* the balance check off by one: balance + 1 < amount
InsufficientOffByOne(sender, amount) ==
    sender # Teacher /\ Get(balances, sender) + 1 < amount

\* the balance check with the comparison reversed: balance > amount
InsufficientReversed(sender, amount) ==
    sender # Teacher /\ Get(balances, sender) > amount

\* the balance check of lines 38-40
Insufficient(sender, amount) ==
    sender # Teacher /\ Get(balances, sender) < amount

\* lines 42-44
MakeTx(sender, recipient, amount, teacher) ==
    [sender |-> sender, recipient |-> recipient, amount |-> amount,
     teacher |-> IF Truthy(teacher) THEN teacher ELSE Absent]

\* line 50 raises KeyError when the sender has no entry in the balance table
RaisesKeyError(sender) == sender # Teacher /\ sender \notin DOMAIN balances

\* the credit computed from the table as it was before the debit
UpdateBalancesStale(b, sender, recipient, amount) ==
    LET debited == IF sender # Teacher THEN Put(b, sender, b[sender] - amount) ELSE b
    IN  Put(debited, recipient, Get(b, recipient) + amount)

\* the debit of line 50 left out
UpdateBalancesNoDebit(b, sender, recipient, amount) ==
    Put(b, recipient, Get(b, recipient) + amount)

\* lines 49-51
UpdateBalances(b, sender, recipient, amount) ==
    LET debited == IF sender # Teacher THEN Put(b, sender, b[sender] - amount) ELSE b
    IN  Put(debited, recipient, Get(debited, recipient) + amount)

\* return self.last_block["index"]
ReturnedIndexNoIncrement(c) == last_block(c).index

\* line 59
ReturnedIndex(c) == last_block(c).index + 1

\* line 40: return False
RejectTransaction ==
    /\ ret' = [op |-> "new_transaction", status |-> "False", value |-> 0]
    /\ UNCHANGED <<engine, returned, tampered, dirty>>

\* lines 42-59: what new_transaction does once the balance check has passed
ApplyTransaction(sender, recipient, amount, teacher) ==
    /\ pending_transactions' =
           Append(pending_transactions, MakeTx(sender, recipient, amount, teacher))
    /\ IF RaisesKeyError(sender)
       THEN /\ ret' = [op |-> "new_transaction", status |-> "KeyError", value |-> 0]
            /\ UNCHANGED <<chain, balances, reward_history, transfer_history,
                           returned, tampered, dirty>>
       ELSE /\ balances' = UpdateBalances(balances, sender, recipient, amount)
            /\ IF sender = Teacher
               THEN /\ reward_history' = Append(reward_history,
                           [teacher |-> teacher, student |-> recipient, amount |-> amount])
                    /\ UNCHANGED transfer_history
               ELSE /\ transfer_history' = Append(transfer_history,
                           [from |-> sender, to |-> recipient, amount |-> amount])
                    /\ UNCHANGED reward_history
            /\ ret' = [op |-> "new_transaction", status |-> "index",
                       value |-> ReturnedIndex(chain)]
            /\ returned' = returned \cup {ReturnedIndex(chain)}
            /\ UNCHANGED <<chain, tampered, dirty>>

new_transaction(sender, recipient, amount, teacher) ==
    IF Insufficient(sender, amount)
    THEN RejectTransaction
    ELSE ApplyTransaction(sender, recipient, amount, teacher)

\* the call of is_chain_valid
is_chain_valid ==
    /\ ret' = [op |-> "is_chain_valid",
               status |-> IF IsChainValid(chain) THEN "True" ELSE "False",
               value |-> 0]
    /\ UNCHANGED <<engine, returned, tampered, dirty>>

----------------------------------------------------------------------------
(* The engine driven by any caller *)

\* number of transactions in the sealed blocks of a chain
RECURSIVE SealedCount(_)
SealedCount(c) ==
    IF c = <<>> THEN 0 ELSE Len(c[Len(c)].transactions) + SealedCount(SubSeq(c, 1, Len(c) - 1))

TxCount == SealedCount(chain) + Len(pending_transactions)

SubmitTransactionFrom(amounts) ==
    /\ TxCount < MaxTx
    /\ \E sender \in Participants, recipient \in Participants,
          amount \in amounts, teacher \in Teachers :
            new_transaction(sender, recipient, amount, teacher)
    /\ UNCHANGED handler

SubmitTransaction == SubmitTransactionFrom(Amounts)

SubmitPositive == SubmitTransactionFrom(PositiveAmounts)

SealBlock ==
    /\ Len(chain) < MaxChain
    /\ \E now \in Times : new_block(CallerProof, now)
    /\ UNCHANGED handler

CheckChain == is_chain_valid /\ UNCHANGED handler

Next == SubmitTransaction \/ SealBlock \/ CheckChain

Spec == Init /\ [][Next]_vars

\* the engine driven by callers that pass positive amounts only
NextPositive == SubmitPositive \/ SealBlock \/ CheckChain

SpecPositive == Init /\ [][NextPositive]_vars

----------------------------------------------------------------------------
(* A sealed block altered from outside the engine: the amount of one of    *)
(* its transactions is overwritten in place (raised by one), the stored    *)
(* hash is left as it was.  A run holds at most one such alteration;       *)
(* Restore writes the original amount back.                                *)

SetAmount(c, k, j, a) == [c EXCEPT ![k].transactions[j].amount = a]

Tamper ==
    /\ tampered = NotTampered
    /\ \E k \in 1..Len(chain) :
         \E j \in 1..Len(chain[k].transactions) :
            /\ chain' = SetAmount(chain, k, j, chain[k].transactions[j].amount + 1)
            /\ tampered' = [phase |-> "altered", block |-> k, tx |-> j,
                            amount |-> chain[k].transactions[j].amount]
    /\ ret' = [op |-> "tamper", status |-> "None", value |-> 0]
    /\ UNCHANGED <<pending_transactions, balances, reward_history, transfer_history,
                   returned, dirty, handler>>

Restore ==
    /\ tampered.phase = "altered"
    /\ chain' = SetAmount(chain, tampered.block, tampered.tx, tampered.amount)
    /\ tampered' = Restored
    /\ ret' = [op |-> "restore", status |-> "None", value |-> 0]
    /\ UNCHANGED <<pending_transactions, balances, reward_history, transfer_history,
                   returned, dirty, handler>>

NextTamper == NextPositive \/ Tamper \/ Restore

SpecTamper == Init /\ [][NextTamper]_vars

----------------------------------------------------------------------------
(* The first block altered from outside the engine: one of its timestamp,  *)
(* proof, transactions or previous_hash is overwritten in place, its       *)
(* stored hash is left as it was.  A run holds at most one alteration.     *)

GenesisFields == {"timestamp", "proof", "transactions", "previous_hash"}

\* a transaction that was never submitted
ForgedTx ==
    [sender |-> "Teacher", recipient |-> "Alice", amount |-> 2, teacher |-> Absent]

\* the first block with one field overwritten
AlteredGenesis(b, field) ==
    CASE field = "timestamp" -> [b EXCEPT !.timestamp = @ + 1]
      [] field = "proof" -> [b EXCEPT !.proof = @ + 1]
      [] field = "transactions" -> [b EXCEPT !.transactions = Append(@, ForgedTx)]
      [] field = "previous_hash" -> [b EXCEPT !.previous_hash = <<"0">>]

TamperGenesis ==
    /\ tampered = NotTampered
    /\ \E field \in GenesisFields :
          chain' = [chain EXCEPT ![1] = AlteredGenesis(@, field)]
    /\ tampered' = [phase |-> "genesis", block |-> 1, tx |-> 0, amount |-> 0]
    /\ ret' = [op |-> "tamper", status |-> "None", value |-> 0]
    /\ UNCHANGED <<pending_transactions, balances, reward_history, transfer_history,
                   returned, dirty, handler>>

NextGenesis == NextPositive \/ TamperGenesis

SpecGenesis == Init /\ [][NextGenesis]_vars

----------------------------------------------------------------------------
(* The form handlers of lines 105-130.  A handler reads its inputs, calls  *)
(* new_transaction and then new_block.  Nothing in the code holds a lock,  *)
(* so another caller's steps may fall between the balance check of lines   *)
(* 38-40, the updates of lines 42-59 and the call of new_block.  The form  *)
(* inputs are what the widgets allow: non-empty names and amounts >= 1.    *)

Forms == {"reward", "transfer"}

\* callers past the balance check whose transaction is not appended yet
Passed == {c \in Callers : handler[c].pc = "passed"}

\* truthiness of what new_transaction returned (line 126: if bc.new_transaction(...))
ReturnedTruthy(r) == r.status = "index" /\ r.value # 0

\* the transfer form without its "if": new_block follows a rejection too
HandlerCheckAlwaysSeals(c) ==
    /\ handler[c].pc = "idle"
    /\ TxCount + Cardinality(Passed) < MaxTx
    /\ \E form \in Forms, sender \in Participants, recipient \in Participants,
          amount \in PositiveAmounts, teacher \in Teachers :
          /\ form = "reward" => sender = Teacher
          /\ LET inputs == [form |-> form, sender |-> sender, recipient |-> recipient,
                            amount |-> amount, teacher |-> teacher]
             IN  IF Insufficient(sender, amount)
                 THEN /\ RejectTransaction
                      /\ handler' = [handler EXCEPT ![c] = [pc |-> "seal"] @@ inputs]
                 ELSE /\ handler' = [handler EXCEPT ![c] = [pc |-> "passed"] @@ inputs]
                      /\ ret' = [op |-> "new_transaction", status |-> "running",
                                 value |-> 0]
                      /\ UNCHANGED <<engine, returned, tampered, dirty>>

\* the handler starts: new_transaction is called and runs its balance check
HandlerCheck(c) ==
    /\ handler[c].pc = "idle"
    /\ TxCount + Cardinality(Passed) < MaxTx
    /\ \E form \in Forms, sender \in Participants, recipient \in Participants,
          amount \in PositiveAmounts, teacher \in Teachers :
          /\ form = "reward" => sender = Teacher
          /\ LET inputs == [form |-> form, sender |-> sender, recipient |-> recipient,
                            amount |-> amount, teacher |-> teacher]
             IN  IF Insufficient(sender, amount)
                 THEN /\ RejectTransaction
                      /\ handler' = [handler EXCEPT ![c] =
                            IF form = "reward"
                            THEN [pc |-> "seal"] @@ inputs
                            ELSE IdleHandler]
                 ELSE /\ handler' = [handler EXCEPT ![c] = [pc |-> "passed"] @@ inputs]
                      /\ ret' = [op |-> "new_transaction", status |-> "running",
                                 value |-> 0]
                      /\ UNCHANGED <<engine, returned, tampered, dirty>>

\* new_transaction goes on after the check; the reward form seals whatever
\* was returned, the transfer form only when the returned value is truthy
HandlerApply(c) ==
    /\ handler[c].pc = "passed"
    /\ ApplyTransaction(handler[c].sender, handler[c].recipient,
                        handler[c].amount, handler[c].teacher)
    /\ handler' = [handler EXCEPT ![c] =
          IF ret'.status # "KeyError"
             /\ (handler[c].form = "reward" \/ ReturnedTruthy(ret'))
          THEN [handler[c] EXCEPT !.pc = "seal"]
          ELSE IdleHandler]

\* block = bc.new_block(proof=123), which ends the handler
HandlerSeal(c) ==
    /\ handler[c].pc = "seal"
    /\ Len(chain) < MaxChain
    /\ \E now \in Times : new_block(CallerProof, now)
    /\ handler' = [handler EXCEPT ![c] = IdleHandler]

\* one session: a single caller, one user action after the other
NextForms ==
    \/ HandlerCheck(1) \/ HandlerApply(1) \/ HandlerSeal(1)
    \/ CheckChain

SpecForms == Init /\ [][NextForms]_vars

\* the same engine handed to several callers at once
NextConcurrent ==
    \/ \E c \in Callers : HandlerCheck(c) \/ HandlerApply(c) \/ HandlerSeal(c)
    \/ CheckChain

SpecConcurrent == Init /\ [][NextConcurrent]_vars

----------------------------------------------------------------------------
(* Derived quantities used by the properties *)

RECURSIVE SumAmounts(_)
SumAmounts(entries) ==
    IF entries = <<>> THEN 0
    ELSE entries[1].amount + SumAmounts(Tail(entries))

RECURSIVE SumOver(_, _)
SumOver(d, keys) ==
    IF keys = {} THEN 0
    ELSE LET k == CHOOSE x \in keys : TRUE
         IN  d[k] + SumOver(d, keys \ {k})

SumBalances == SumOver(balances, DOMAIN balances)

\* the transactions of the sealed blocks, in chain order
RECURSIVE SealedTxs(_)
SealedTxs(c) ==
    IF c = <<>> THEN <<>>
    ELSE SealedTxs(SubSeq(c, 1, Len(c) - 1)) \o c[Len(c)].transactions

IsTeacherTx(tx) == tx.sender = "Teacher"
IsStudentTx(tx) == tx.sender # "Teacher"

IsPrefix(s, t) == Len(s) <= Len(t) /\ SubSeq(t, 1, Len(s)) = s

RewardView(txs) ==
    [i \in 1..Len(txs) |-> [student |-> txs[i].recipient, amount |-> txs[i].amount]]
TransferView(txs) ==
    [i \in 1..Len(txs) |->
        [from |-> txs[i].sender, to |-> txs[i].recipient, amount |-> txs[i].amount]]
RewardEntries ==
    [i \in 1..Len(reward_history) |->
        [student |-> reward_history[i].student, amount |-> reward_history[i].amount]]

----------------------------------------------------------------------------
(* Properties *)

\* C1: a step that is new_transaction(sender, recipient, amount, teacher) with a
\* sender other than "Teacher" and an amount greater than the sender's balance
\* (0 for a sender without an entry) returns False and leaves the balances, the
\* pending buffer, the chain and both histories unchanged.
InsufficientBalanceRejected ==
    [][\A sender \in Participants \ {"Teacher"}, recipient \in Participants,
          amount \in Amounts, teacher \in Teachers :
            (amount > Get(balances, sender)
               /\ new_transaction(sender, recipient, amount, teacher))
            => /\ ret'.op = "new_transaction"
               /\ ret'.status = "False"
               /\ balances' = balances
               /\ pending_transactions' = pending_transactions
               /\ chain' = chain
               /\ reward_history' = reward_history
               /\ transfer_history' = transfer_history]_vars

\* a transfer was just rejected while the ledger already holds coins
RejectionSeen ==
    /\ ret.op = "new_transaction"
    /\ ret.status = "False"
    /\ \E p \in DOMAIN balances : balances[p] > 0

\* C2: the sum of the balance table equals the total amount of the successful
\* submissions whose sender is "Teacher" (the reward history lists exactly
\* those).
BalanceConservation == SumBalances = SumAmounts(reward_history)

\* rewards, a transfer and "Teacher" as a recipient have all happened
ConservationCase ==
    /\ Len(reward_history) >= 1
    /\ Len(transfer_history) >= 1
    /\ "Teacher" \in DOMAIN balances

\* C3: with positive amounts only, every entry of the balance table is >= 0.
NonNegativeBalances == \A p \in DOMAIN balances : balances[p] >= 0

\* a sender has transferred all it had
SpentEverything ==
    /\ Len(transfer_history) >= 1
    /\ \E p \in DOMAIN balances : p # "Teacher" /\ balances[p] = 0

\* C4: every block after the first carries the stored hash of the block before it.
ChainLinked ==
    \A i \in 2..Len(chain) : chain[i].previous_hash = chain[i - 1].hash

\* two blocks were sealed on top of the genesis block, one of them with transactions
TwoBlocksSealed ==
    /\ Len(chain) = 3
    /\ chain[2].transactions # <<>>
    /\ ret.op = "new_block"

\* C5: a freshly initialized engine holds exactly the genesis block (index 1,
\* previous_hash "1", proof 100, no transactions, a hash equal to the recomputed
\* digest) and an empty buffer, balance table and histories.
GenesisInvariant ==
    ret.op = "__init__" =>
        /\ Len(chain) = 1
        /\ chain[1].index = 1
        /\ chain[1].previous_hash = <<"1">>
        /\ chain[1].proof = 100
        /\ chain[1].transactions = <<>>
        /\ chain[1].hash = Hash(chain[1])
        /\ chain[1].hash =
              <<"sha256", 1, <<"1">>, 100, chain[1].timestamp, <<>>>>
        /\ pending_transactions = <<>>
        /\ DOMAIN balances = {}
        /\ reward_history = <<>>
        /\ transfer_history = <<>>

FreshEngine == ret.op = "__init__" /\ Len(chain) = 1

\* C6: the sealed transactions sent by "Teacher" are, in order, the first
\* entries of the reward history, the other sealed transactions are, in order,
\* the first entries of the transfer history, and no entry of the transfer
\* history is from "Teacher".
HistoryPartitionComplete ==
    /\ IsPrefix(RewardView(SelectSeq(SealedTxs(chain), IsTeacherTx)), RewardEntries)
    /\ IsPrefix(TransferView(SelectSeq(SealedTxs(chain), IsStudentTx)), transfer_history)
    /\ \A i \in 1..Len(transfer_history) : transfer_history[i].from # "Teacher"

\* C7: no call of new_transaction ends in an exception, and every transaction
\* of the buffer or of a sealed block has its history entry.
NoCrashPath ==
    /\ ret.status # "KeyError"
    /\ TxCount = Len(reward_history) + Len(transfer_history)

\* C8: a successful new_transaction returns the index of the last sealed block
\* plus one, and the block the next new_block appends carries the index that
\* every new_transaction since the previous new_block returned.
PredictedBlockIndex ==
    [][/\ (ret'.op = "new_transaction" /\ ret'.status = "index")
            => /\ ret'.value = chain[Len(chain)].index + 1
               /\ ret'.value \in returned'
       /\ ret'.op = "new_block"
            => /\ Len(chain') = Len(chain) + 1
               /\ \A r \in returned : r = chain'[Len(chain')].index]_vars

\* a block was just sealed with two transactions submitted by "Teacher"
TwoSubmissionsSealed ==
    /\ ret.op = "new_block"
    /\ Len(chain[Len(chain)].transactions) = 2
    /\ \A i \in 1..2 : chain[Len(chain)].transactions[i].sender = "Teacher"

\* C9: while the amount of a sealed transaction is altered and its block's hash
\* is not recomputed, is_chain_valid returns False; once the amount is written
\* back (no block having been sealed on top of the altered one) it returns True.
TamperDetected ==
    /\ tampered.phase = "altered" => ~IsChainValid(chain)
    /\ (tampered.phase = "altered" /\ ret.op = "is_chain_valid") => ret.status = "False"
    /\ (tampered.phase = "restored" /\ ~dirty) => IsChainValid(chain)
    /\ (tampered.phase = "restored" /\ ~dirty /\ ret.op = "is_chain_valid")
          => ret.status = "True"

\* three blocks built by two submit-then-seal steps, an amount altered and
\* written back, and is_chain_valid called after that
RestoredChainChecked ==
    /\ Len(chain) = 3
    /\ Len(chain[2].transactions) = 1
    /\ Len(chain[3].transactions) = 1
    /\ pending_transactions = <<>>
    /\ tampered.phase = "restored"
    /\ ~dirty
    /\ ret.op = "is_chain_valid"

\* C10: no step shortens the chain or changes a block that is already in it.
AppendOnlyChain ==
    [][/\ Len(chain') >= Len(chain)
       /\ \A k \in 1..Len(chain) : chain'[k] = chain[k]]_vars

\* a transaction is pending while an earlier block holds sealed transactions
PendingAfterSeal ==
    /\ Len(chain) >= 2
    /\ chain[2].transactions # <<>>
    /\ pending_transactions # <<>>

\* C11: with several callers on one engine, every block a handler seals holds
\* exactly the one transaction that handler submitted, and no step leaves a
\* balance below zero.
AtomicSubmitThenSeal ==
    [][/\ \A p \in DOMAIN balances' : balances'[p] >= 0
       /\ \A c \in Callers :
            (handler[c].pc = "seal" /\ handler'[c].pc = "idle")
            => chain'[Len(chain')].transactions =
                 <<MakeTx(handler[c].sender, handler[c].recipient,
                          handler[c].amount, handler[c].teacher)>>]_vars

\* what the claims say a call new_block(proof) does to the engine
SealEffect(proof) ==
    /\ ret'.op = "new_block"
    /\ ret'.status = "block"
    /\ Len(chain') = Len(chain) + 1
    /\ SubSeq(chain', 1, Len(chain)) = chain
    /\ chain'[Len(chain')].transactions = pending_transactions
    /\ chain'[Len(chain')].index = Len(chain) + 1
    /\ chain'[Len(chain')].proof = proof
    /\ pending_transactions' = <<>>
    /\ balances' = balances
    /\ reward_history' = reward_history
    /\ transfer_history' = transfer_history

\* C12: new_block always has a last block to build on; a step that is
\* new_block(proof) appends one block holding the pending transactions in
\* order, with index = previous length + 1 and the given proof, empties the
\* buffer and leaves balances and histories alone; the k-th block has index k.
SealBlockEffect ==
    [][/\ chain' # <<>>
       /\ \A k \in 1..Len(chain') : chain'[k].index = k
       /\ ret'.op = "new_block" => SealEffect(123)
       /\ \A proof \in {100, 123}, now \in Times :
            new_block(proof, now) => SealEffect(proof)]_vars

\* an empty block and a block with two transactions were sealed
EmptyAndFullBlockSealed ==
    /\ ret.op = "new_block"
    /\ Len(chain) = 3
    /\ chain[2].transactions = <<>>
    /\ Len(chain[3].transactions) = 2

\* the balance the claims give participant p after a successful submission
BalanceAfter(p, sender, recipient, amount) ==
    Get(balances, p)
      - (IF p = sender /\ sender # "Teacher" THEN amount ELSE 0)
      + (IF p = recipient THEN amount ELSE 0)

\* what the claims say a successful new_transaction does to the engine
SubmitEffect(sender, recipient, amount) ==
    /\ Len(pending_transactions') = Len(pending_transactions) + 1
    /\ SubSeq(pending_transactions', 1, Len(pending_transactions)) = pending_transactions
    /\ LET tx == pending_transactions'[Len(pending_transactions')]
       IN  tx.sender = sender /\ tx.recipient = recipient /\ tx.amount = amount
    /\ DOMAIN balances' = DOMAIN balances \cup {recipient}
    /\ \A p \in Participants :
          Get(balances', p) = BalanceAfter(p, sender, recipient, amount)
    /\ IF sender = "Teacher"
       THEN /\ Len(reward_history') = Len(reward_history) + 1
            /\ SubSeq(reward_history', 1, Len(reward_history)) = reward_history
            /\ reward_history'[Len(reward_history')].student = recipient
            /\ reward_history'[Len(reward_history')].amount = amount
            /\ transfer_history' = transfer_history
       ELSE /\ transfer_history' = Append(transfer_history,
                   [from |-> sender, to |-> recipient, amount |-> amount])
            /\ reward_history' = reward_history
    /\ chain' = chain

\* C13: a step that is a successful new_transaction(sender, recipient, amount)
\* appends that one transaction to the buffer, debits the sender unless it is
\* "Teacher", credits the recipient (from 0 when unseen), appends one entry to
\* exactly one history and leaves the chain and every other balance unchanged.
SuccessfulSubmitEffect ==
    [][\A sender \in Participants, recipient \in Participants,
          amount \in Amounts, teacher \in Teachers :
            (new_transaction(sender, recipient, amount, teacher)
               /\ ret'.status = "index")
            => SubmitEffect(sender, recipient, amount)]_vars

\* a transfer has just succeeded on an engine that has seen a reward
TransferSucceeded ==
    /\ ret.op = "new_transaction"
    /\ ret.status = "index"
    /\ transfer_history # <<>>
    /\ pending_transactions # <<>>
    /\ pending_transactions[Len(pending_transactions)].sender # "Teacher"
    /\ reward_history # <<>>

\* C14: with one session driving the engine through the two forms, whenever
\* the handler has ended the buffer is empty, every block after the first
\* holds one transaction, the chain has 1 + (successful submissions) blocks
\* and the histories have one entry per sealed transaction; a step that
\* rejects a transfer ends the handler without sealing a block.
OneTransactionPerBlock ==
    [][/\ handler'[1].pc = "idle"
            => /\ pending_transactions' = <<>>
               /\ \A k \in 2..Len(chain') : Len(chain'[k].transactions) = 1
               /\ Len(chain') = 1 + Len(reward_history') + Len(transfer_history')
               /\ Len(reward_history') + Len(transfer_history') = SealedCount(chain')
       /\ (ret'.op = "new_transaction" /\ ret'.status = "False")
            => /\ chain' = chain
               /\ handler'[1].pc = "idle"]_vars

\* a transfer was rejected after a user action had sealed a block
RejectedAfterAction ==
    /\ handler[1].pc = "idle"
    /\ Len(chain) >= 2
    /\ ret.op = "new_transaction"
    /\ ret.status = "False"

\* C15: a step that is new_transaction with an amount of zero or less, from
\* any sender, "Teacher" included, returns the failure signal and leaves the
\* buffer, the balances, the histories and the chain unchanged.
NonPositiveAmountRejected ==
    [][\A sender \in Participants, recipient \in Participants,
          amount \in Amounts, teacher \in Teachers :
            (amount <= 0 /\ new_transaction(sender, recipient, amount, teacher))
            => /\ ret'.status = "False"
               /\ pending_transactions' = pending_transactions
               /\ balances' = balances
               /\ reward_history' = reward_history
               /\ transfer_history' = transfer_history
               /\ chain' = chain]_vars

\* C16: every block of the chain, the first included, stores the digest of
\* its index, timestamp, transactions, proof and previous_hash; with any one
\* of timestamp, transactions, proof or previous_hash changed the recomputed
\* digest differs from the stored hash.
HashSelfConsistent ==
    \A k \in 1..Len(chain) :
        LET b == chain[k]
            extra == [sender |-> "Teacher", recipient |-> "Alice", amount |-> 1,
                      teacher |-> "MsLee"]
        IN  /\ Hash(b) = b.hash
            /\ Hash([b EXCEPT !.timestamp = @ + 1]) # b.hash
            /\ Hash([b EXCEPT !.proof = @ + 1]) # b.hash
            /\ Hash([b EXCEPT !.previous_hash = <<"0">>]) # b.hash
            /\ Hash([b EXCEPT !.transactions = Append(@, extra)]) # b.hash
            /\ \A j \in 1..Len(b.transactions) :
                 /\ Hash([b EXCEPT !.transactions[j].amount = @ + 1]) # b.hash
                 /\ Hash([b EXCEPT !.transactions[j].recipient = "Mallory"]) # b.hash
                 /\ Hash([b EXCEPT !.transactions =
                              SubSeq(@, 1, j - 1) \o SubSeq(@, j + 1, Len(@))]) # b.hash

\* a chain of three blocks with sealed transactions
SealedBlocksToRehash ==
    /\ Len(chain) = 3
    /\ chain[2].transactions # <<>>
    /\ chain[3].transactions # <<>>

\* what the claims say a rejected new_transaction does to the engine
RejectEffect ==
    /\ ret'.status = "False"
    /\ pending_transactions' = pending_transactions
    /\ balances' = balances
    /\ reward_history' = reward_history
    /\ transfer_history' = transfer_history
    /\ chain' = chain

\* C17: while is_chain_valid returns False, new_block and new_transaction
\* can still be called and do to the buffer, the balances, the histories and
\* the chain length what they do on a valid chain.
BrokenChainAcceptsWrites ==
    ~IsChainValid(chain) =>
        /\ \A now \in Times :
              ENABLED (new_block(123, now) /\ SealEffect(123))
        /\ \A sender \in Participants, recipient \in Participants,
              amount \in PositiveAmounts, teacher \in Teachers :
              ENABLED (/\ new_transaction(sender, recipient, amount, teacher)
                       /\ IF sender # "Teacher" /\ amount > Get(balances, sender)
                          THEN RejectEffect
                          ELSE ret'.status = "index"
                               /\ SubmitEffect(sender, recipient, amount))

\* a block with transactions was sealed while a sealed amount was altered
SealedOnBrokenChain ==
    /\ tampered.phase = "altered"
    /\ ~IsChainValid(chain)
    /\ ret.op = "new_block"
    /\ chain[Len(chain)].transactions # <<>>

\* C18: every chain the engine builds by itself passes is_chain_valid, the
\* call returns True, and the call changes none of the engine's attributes.
ReachableChainsValid ==
    /\ [](IsChainValid(chain) /\ (ret.op = "is_chain_valid" => ret.status = "True"))
    /\ [][ret'.op = "is_chain_valid" => engine' = engine]_vars

\* is_chain_valid was called on a chain of three blocks, one of them holding
\* two transactions
LongChainChecked ==
    /\ ret.op = "is_chain_valid"
    /\ Len(chain) = 3
    /\ \E k \in 2..3 : Len(chain[k].transactions) = 2

\* the balance of p that replaying a list of transactions gives
RECURSIVE Replay(_, _)
Replay(txs, p) ==
    IF txs = <<>> THEN 0
    ELSE LET tx == txs[Len(txs)]
         IN  Replay(SubSeq(txs, 1, Len(txs) - 1), p)
               + (IF tx.recipient = p THEN tx.amount ELSE 0)
               - (IF tx.sender = p /\ p # "Teacher" THEN tx.amount ELSE 0)

\* C19: the balance of every participant (0 without an entry) is what
\* replaying the sealed and the pending transactions gives.
BalancesReplayLedger ==
    \A p \in Participants :
        Get(balances, p) = Replay(SealedTxs(chain) \o pending_transactions, p)

\* C20: is_chain_valid reads only the stored hash of the first block: with
\* its timestamp, proof, transactions or previous_hash altered the chain that
\* existed still passes, and any such alteration leaves the result as it is;
\* a block sealed directly on the altered first block carries a previous_hash
\* other than the first block's stored hash, and is_chain_valid returns False
\* from then on.
GenesisNotValidated ==
    /\ \A field \in GenesisFields :
          IsChainValid([chain EXCEPT ![1] = AlteredGenesis(@, field)])
            = IsChainValid(chain)
    /\ (tampered.phase = "genesis" /\ ~dirty)
          => /\ chain[1].hash # Hash(chain[1])
             /\ IsChainValid(chain)
             /\ ret.op = "is_chain_valid" => ret.status = "True"
    /\ (tampered.phase = "genesis" /\ dirty)
          => /\ chain[2].previous_hash # chain[1].hash
             /\ ~IsChainValid(chain)
             /\ ret.op = "is_chain_valid" => ret.status = "False"

\* a block was sealed on the altered first block and is_chain_valid was called
AlteredGenesisSealedOn ==
    /\ tampered.phase = "genesis"
    /\ dirty
    /\ Len(chain) >= 2
    /\ ret.op = "is_chain_valid"

====
